---------------------------- MODULE Spec2Model ----------------------------
(***************************************************************************)
(* A model of the financial-document Q&A pipeline:                         *)
(*   document_processor.py  normalize_numeric_tokens, chunk_text_blocks    *)
(*   qa.py                  Retriever, call_ollama_cli, make_prompt,       *)
(*                          answer_question                                *)
(*   streamlit_app.py       the script Streamlit re-runs on every event    *)
(*                                                                         *)
(* A Python str is a sequence of one-character strings.                    *)
(***************************************************************************)
EXTENDS Integers, Sequences, FiniteSets, TLC

VARIABLES
    \* ---- chunk_text_blocks(text_blocks, max_chars, overlap) ----
    text_blocks,    \* the argument: a sequence of strings
    max_chars,      \* the argument max_chars
    overlap,        \* the argument overlap
    cpc,            \* where the call is: "idle", "for", "while", "return"
    bi,             \* 1-based position of the for loop in text_blocks
    block,          \* the local `block` (stripped, normalized) inside the while loop
    start,          \* the local `start`
    chunks,         \* the local list `chunks`
    spans,          \* per emitted chunk: the block it came from and [lo, hi)
    \* ---- Retriever and answer_question(retriever, question, docs, model, top_k) ----
    docs,           \* the corpus: the list of chunks (st.session_state.docs in the app)
    retriever,      \* the Retriever object, or None
    qpc,            \* "new", "ready", "raised" (an exception left the call), "answered"
    question,       \* the argument question of the last call
    top_k,          \* the argument top_k of the last call
    sims,           \* the similarities cosine_similarity returned in the last call
    hits,           \* what Retriever.top_k returned in the last call
    prompt,         \* the prompt make_prompt built in the last call
    ollama,         \* what the Ollama CLI did in the last call
    gen_log,        \* the prompts handed to the Ollama CLI in the last call, in order
    response,       \* what answer_question returned
    \* ---- streamlit_app.py: the session and the last run of the script ----
    event,          \* what started the last run: "none", "process", "ask", "rerun"
    apc,            \* "start", "idle" between runs; how the last run ended: "done",
                    \* "warning", "hung", or the exception that stopped it
    uploaded,       \* uploaded_files as the last Process click saw them
    settings,       \* the sidebar's chunk size and overlap as that click saw them
    orig_tables,    \* st.session_state.orig_tables
    chat_history    \* st.session_state.chat_history

chunkVars == <<text_blocks, max_chars, overlap, cpc, bi, block, start, chunks, spans>>
qaVars == <<docs, retriever, qpc, question, top_k, sims, hits, prompt, ollama, gen_log, response>>

appVars == <<event, apc, uploaded, settings, orig_tables, chat_history>>

vars == <<chunkVars, qaVars, appVars>>

-----------------------------------------------------------------------------
(* Bounds of the model *)

MaxBlockLen == 4        \* longest raw text block
MinChars == 1           \* max_chars ranges over -MinChars .. MaxChars
MaxChars == 3
MaxOverlap == 3         \* overlap ranges over 0 .. MaxOverlap
MaxDocs == 2            \* longest corpus handed to Retriever directly
MaxK == 2               \* top_k ranges over 1 .. MaxK
MaxScore == 2           \* positive similarities are ranked 1 .. MaxScore
LongLen == 1800         \* length of the long chunk
MaxFiles == 2           \* most files uploaded at once
MaxAsks == 1            \* most questions answered in one session

-----------------------------------------------------------------------------
(* Strings *)

Max(a, b) == IF a >= b THEN a ELSE b
Min(a, b) == IF a <= b THEN a ELSE b

Digit == "1"
Comma == ","
Space == " "
Letter == "a"
Chars == {Digit, Comma, Space}

\* n copies of the character c
Run(c, n) == [i \in 1..n |-> c]

\* s[:n] for n >= 0
Take(s, n) == SubSeq(s, 1, Min(n, Len(s)))

StringsUpTo(n) == UNION {[1..m -> Chars] : m \in 0..n}

\* str.strip(): drop leading and trailing whitespace
Strip(s) ==
    IF \A i \in 1..Len(s) : s[i] = Space THEN <<>>
    ELSE LET lo == CHOOSE i \in 1..Len(s) :
                      s[i] # Space /\ \A j \in 1..(i-1) : s[j] = Space
             hi == CHOOSE i \in 1..Len(s) :
                      s[i] # Space /\ \A j \in (i+1)..Len(s) : s[j] = Space
         IN  SubSeq(s, lo, hi)

\* the regular expression (?<=\d),(?=\d) matches at position i of s
IsGroupComma(s, i) ==
    /\ s[i] = Comma
    /\ i > 1 /\ s[i-1] = Digit
    /\ i < Len(s) /\ s[i+1] = Digit

RECURSIVE DropGroupCommas(_, _)
DropGroupCommas(s, i) ==
    IF i > Len(s) THEN <<>>
    ELSE (IF IsGroupComma(s, i) THEN <<>> ELSE <<s[i]>>) \o DropGroupCommas(s, i + 1)

\* re.sub(r'(?<=\d),(?=\d)', '', text)
normalize_numeric_tokens(text) == DropGroupCommas(text, 1)

\* s[lo:hi]: a negative index counts from the end, both are clamped to the string
PyIndex(s, i) == IF i < 0 THEN Max(0, Len(s) + i) ELSE Min(i, Len(s))

PySlice(s, lo, hi) ==
    IF PyIndex(s, lo) >= PyIndex(s, hi) THEN <<>>
    ELSE SubSeq(s, PyIndex(s, lo) + 1, PyIndex(s, hi))

-----------------------------------------------------------------------------
(* qa.py: Retriever *)

None == [none |-> TRUE]

\* TfidfVectorizer's token pattern \b\w\w+\b: the maximal runs of two or more
\* word characters (the model's alphabet has one case and no stop word)
WordChar(c) == c \in {Digit, Letter}

TokenEnd(s, i) ==
    LET ends == {j \in i..Len(s) : j = Len(s) \/ ~WordChar(s[j+1])}
    IN  CHOOSE j \in ends : \A j2 \in ends : j <= j2

Tokens(s) ==
    LET starts == {i \in 1..Len(s) : WordChar(s[i]) /\ (i = 1 \/ ~WordChar(s[i-1]))}
    IN  {SubSeq(s, i, TokenEnd(s, i)) : i \in {t \in starts : TokenEnd(s, t) > t}}

\* Retriever.__init__: the object, or the exception that leaves the constructor:
\* fit_transform raises ValueError("empty vocabulary") when no document has a term
\* (doc_vectors is kept as the terms of each document)
Retriever(d) ==
    IF d = <<>>
    THEN [exc |-> "none", docs |-> d, vectorizer |-> "None", doc_vectors |-> <<>>]
    ELSE LET terms == [i \in DOMAIN d |-> Tokens(d[i])]
         IN  IF \A i \in DOMAIN d : terms[i] = {}
             THEN [exc |-> "ValueError"]
             ELSE [exc |-> "none", docs |-> d, vectorizer |-> "fitted",
                   doc_vectors |-> terms]

\* cosine_similarity(qv, doc_vectors)[0]: every tf-idf weight is positive, so a
\* similarity is positive exactly when the chunk shares a vocabulary term with
\* the query; equal chunks have equal vectors.  Its size is left open: a rank
\* in 1..MaxScore.
SharingTerms(r, query) ==
    LET qt == Tokens(query)
    IN  {i \in DOMAIN r.docs : r.doc_vectors[i] \cap qt # {}}

SimilaritiesOver(r, sharing) ==
    {[i \in DOMAIN r.docs |-> IF i \in sharing THEN rank[r.docs[i]] ELSE 0] :
        rank \in [{r.docs[i] : i \in sharing} -> 1..MaxScore]}

Similarities(r, query) == SimilaritiesOver(r, SharingTerms(r, query))

\* np.argsort(sims)[::-1][:k]: the last k entries of an ascending sort, the
\* last one first.  The default sort is not stable, so chunks of equal
\* similarity come in any order: each choice below is one the sort can make.
RECURSIVE Descending(_, _, _)
Descending(s, left, k) ==
    IF k <= 0 \/ left = {} THEN {<<>>}
    ELSE LET top == {i \in left : \A j \in left : s[i] >= s[j]}
         IN  UNION {{<<i>> \o rest : rest \in Descending(s, left \ {i}, k - 1)} : i \in top}

ArgSortTop(s, k) == Descending(s, DOMAIN s, k)

\* the filter `if sims[i] > 0`
SurfacedBad(score) == score >= 0
Surfaced(score) == score > 0

RECURSIVE KeepSurfaced(_, _)
KeepSurfaced(idx, s) ==
    IF idx = <<>> THEN <<>>
    ELSE (IF Surfaced(s[Head(idx)])
             THEN <<[idx |-> Head(idx) - 1, score |-> s[Head(idx)]]>>
             ELSE <<>>)
         \o KeepSurfaced(Tail(idx), s)

\* Retriever.top_k(query, k), given what cosine_similarity and argsort answered;
\* a hit carries the 0-based corpus index
TopK(r, s, idx) ==
    IF r.vectorizer = "None" THEN <<>>
    ELSE KeepSurfaced(idx, s)

-----------------------------------------------------------------------------
(* qa.py: call_ollama_cli, make_prompt, answer_question *)

\* the literal texts, by length; each has a character of its own
HeaderLen == 216
Header == Run("H", HeaderLen)
ContextLabel == Run("C", 9)             \* "CONTEXT:\n"
Delimiter == Run("-", 7)                \* "\n\n---\n\n"
QuestionLabel == Run("Q", 12)           \* "\n\nQUESTION:\n"
TrailerLen == 103
Trailer == Run("T", TrailerLen)         \* "\n\nAnswer succinctly ..."
NoContextLen == 93
NoContext == Run("N", NoContextLen)     \* "No relevant extracted context found. ..."
ErrorLabel == Run("E", 22)              \* "ERROR calling Ollama: "
PromptSentLabel == Run("P", 27)         \* "\n\nPrompt sent (truncated):\n"
CliMissingMsg == Run("m", 75)           \* "Ollama CLI not found. ..."
TimedOutMsg == Run("t", 22)             \* "Ollama call timed out."
OllamaErrorLabel == Run("x", 14)        \* "Ollama error: "
TruncLen == 2000

\* f"(score {score:.3f})\n": 14 characters, the digits standing for the score
ScoreDigits == <<"0", "1", "2", "3", "4", "5", "6", "7", "8", "9">>
ScoreLine(score) ==
    <<"(", "s", "c", "o", "r", "e", "_">> \o Run(ScoreDigits[score + 1], 5) \o <<")", "n">>

RECURSIVE Join(_, _)
Join(sep, parts) ==
    IF parts = <<>> THEN <<>>
    ELSE IF Len(parts) = 1 THEN parts[1]
    ELSE parts[1] \o sep \o Join(sep, Tail(parts))

\* make_prompt(contexts, question) with instructions = None
make_prompt(contexts, q) ==
    Header \o ContextLabel \o (IF contexts # <<>> THEN Join(Delimiter, contexts) ELSE <<>>)
           \o QuestionLabel \o q \o Trailer

\* What the Ollama CLI does when run
GenOutcomes ==
    {[kind |-> "ok", out |-> <<"o", Space>>, err |-> <<>>],
     [kind |-> "missing", out |-> <<>>, err |-> <<>>],
     [kind |-> "nonzero", out |-> <<>>, err |-> <<Space, "e">>],
     [kind |-> "timeout", out |-> <<>>, err |-> <<>>]}

\* call_ollama_cli(prompt, model): the text returned, or the RuntimeError raised
call_ollama_cli(p, outcome) ==
    CASE outcome.kind = "missing" -> [exc |-> "RuntimeError", text |-> CliMissingMsg]
      [] outcome.kind = "timeout" -> [exc |-> "RuntimeError", text |-> TimedOutMsg]
      [] outcome.kind = "nonzero" ->
            [exc |-> "RuntimeError", text |-> OllamaErrorLabel \o Strip(outcome.err)]
      [] OTHER -> [exc |-> "none", text |-> Strip(outcome.out)]

\* `if not contexts: contexts = [...]`
FallbackBad(contexts) == contexts
Fallback(contexts) == IF contexts = <<>> THEN <<NoContext>> ELSE contexts

\* prompt[:2000]
TruncatedBad(p) == p
Truncated(p) == Take(p, TruncLen)

\* answer_question: [exc, hits, prompt, calls, response]
answer_question(r, q, d, s, idx, outcome) ==
    LET h == TopK(r, s, idx)
    IN  IF \E i \in DOMAIN h : h[i].idx >= Len(d)
        THEN [exc |-> "IndexError", hits |-> h, prompt |-> <<>>, calls |-> <<>>,
              response |-> <<>>]
        ELSE LET contexts == [i \in DOMAIN h |-> ScoreLine(h[i].score) \o d[h[i].idx + 1]]
                 p == make_prompt(Fallback(contexts), q)
                 got == call_ollama_cli(p, outcome)
             IN  [exc |-> "none", hits |-> h, prompt |-> p, calls |-> <<p>>,
                  response |-> IF got.exc = "none" THEN got.text
                               ELSE ErrorLabel \o got.text \o PromptSentLabel \o Truncated(p)]

-----------------------------------------------------------------------------
(* Retriever and answer_question called on a corpus of the caller's choice *)

QAIdle ==
    /\ docs = <<>>
    /\ retriever = None
    /\ qpc = "new"
    /\ question = <<>>
    /\ top_k = 0
    /\ sims = <<>>
    /\ hits = <<>>
    /\ prompt = <<>>
    /\ ollama = None
    /\ gen_log = <<>>
    /\ response = <<>>

AppIdle ==
    /\ event = "none"
    /\ apc = "start"
    /\ uploaded = <<>>
    /\ settings = None
    /\ orig_tables = <<>>
    /\ chat_history = <<>>

ChunkIdle ==
    /\ text_blocks = <<>>
    /\ max_chars = 0
    /\ overlap = 0
    /\ cpc = "idle"
    /\ bi = 0
    /\ block = <<>>
    /\ start = 0
    /\ chunks = <<>>
    /\ spans = <<>>

LongText == <<Letter, Letter, Space>> \o Run(Letter, LongLen)
CorpusTexts == {<<Letter, Letter>>, <<Comma>>, LongText}
Questions == {<<Letter, Letter>>, <<Digit, Letter>>}

QAInit ==
    /\ ChunkIdle
    /\ AppIdle
    /\ \E n \in 0..MaxDocs : docs \in [1..n -> CorpusTexts]
    /\ retriever = None
    /\ qpc = "new"
    /\ question = <<>>
    /\ top_k = 0
    /\ sims = <<>>
    /\ hits = <<>>
    /\ prompt = <<>>
    /\ ollama = None
    /\ gen_log = <<>>
    /\ response = <<>>

\* retriever = Retriever(docs)
Construct ==
    /\ qpc = "new"
    /\ LET r == Retriever(docs)
       IN  IF r.exc # "none"
           THEN qpc' = "raised" /\ UNCHANGED retriever
           ELSE qpc' = "ready" /\ retriever' = r
    /\ UNCHANGED <<chunkVars, appVars, docs, question, top_k, sims, hits, prompt, ollama, gen_log,
                   response>>

\* answer_question(retriever, question, docs, top_k=k)
Answer ==
    /\ qpc = "ready"
    /\ \E q \in Questions :
          \E s \in Similarities(retriever, q) :
             \E k \in 1..MaxK, outcome \in GenOutcomes :
                \E idx \in ArgSortTop(s, k) :
                LET a == answer_question(retriever, q, docs, s, idx, outcome)
                IN  /\ question' = q
                    /\ top_k' = k
                    /\ sims' = s
                    /\ hits' = a.hits
                    /\ prompt' = a.prompt
                    /\ ollama' = outcome
                    /\ gen_log' = a.calls
                    /\ response' = a.response
                    /\ qpc' = IF a.exc = "none" THEN "answered" ELSE "raised"
    /\ UNCHANGED <<chunkVars, appVars, docs, retriever>>

QANext ==
    \/ Construct
    \/ Answer

SpecQA == QAInit /\ [][QANext]_vars

-----------------------------------------------------------------------------
(* chunk_text_blocks, one step per loop iteration *)

\* the block as the loops see it: block.strip(), then normalize_numeric_tokens
Prepared(raw) == normalize_numeric_tokens(Strip(raw))

\* start = max(0, end - overlap)
NextStartBad(end, ov) == end + ov
NextStart(end, ov) == Max(0, end - ov)

\* The while loop never ends for some arguments; the model stops following it
\* once it has emitted more chunks than any ending call can.
MaxChunks == 2 * MaxBlockLen + 2

ChunkInputs ==
    {<<tb, m, o>> : tb \in {<<b>> : b \in StringsUpTo(MaxBlockLen)}
                         \cup {<<b, c>> : b \in StringsUpTo(MaxBlockLen),
                                          c \in {<<Space>>, <<Digit, Comma, Digit>>}},
                    m \in (0 - MinChars)..MaxChars,
                    o \in 0..MaxOverlap}

ChunkInit ==
    /\ \E inp \in ChunkInputs :
          /\ text_blocks = inp[1]
          /\ max_chars = inp[2]
          /\ overlap = inp[3]
    /\ cpc = "for"
    /\ bi = 1
    /\ block = <<>>
    /\ start = 0
    /\ chunks = <<>>
    /\ spans = <<>>
    /\ QAIdle
    /\ AppIdle

\* `if not block: continue`
ForSkip ==
    /\ cpc = "for"
    /\ bi <= Len(text_blocks)
    /\ Strip(text_blocks[bi]) = <<>>
    /\ bi' = bi + 1
    /\ UNCHANGED <<text_blocks, max_chars, overlap, cpc, block, start, chunks, spans, qaVars, appVars>>

\* `if len(block) <= max_chars: chunks.append(block); continue`
ForWhole ==
    /\ cpc = "for"
    /\ bi <= Len(text_blocks)
    /\ Strip(text_blocks[bi]) # <<>>
    /\ LET b == Prepared(text_blocks[bi])
       IN  /\ Len(b) <= max_chars
           /\ chunks' = Append(chunks, b)
           /\ spans' = Append(spans, [blk |-> bi, lo |-> 0, hi |-> Len(b)])
    /\ bi' = bi + 1
    /\ UNCHANGED <<text_blocks, max_chars, overlap, cpc, block, start, qaVars, appVars>>

\* `start = 0; L = len(block)` and the first test of the while loop
ForEnter ==
    /\ cpc = "for"
    /\ bi <= Len(text_blocks)
    /\ Strip(text_blocks[bi]) # <<>>
    /\ LET b == Prepared(text_blocks[bi])
       IN  /\ Len(b) > max_chars
           /\ block' = b
    /\ start' = 0
    /\ cpc' = "while"
    /\ UNCHANGED <<text_blocks, max_chars, overlap, bi, chunks, spans, qaVars, appVars>>

\* one iteration of `while start < L`
WhileStep ==
    /\ cpc = "while"
    /\ start < Len(block)
    /\ Len(chunks) < MaxChunks
    /\ LET end == start + max_chars
       IN  /\ chunks' = Append(chunks, Strip(PySlice(block, start, end)))
           /\ spans' = Append(spans, [blk |-> bi, lo |-> start, hi |-> end])
           /\ start' = NextStart(end, overlap)
    /\ UNCHANGED <<text_blocks, max_chars, overlap, cpc, bi, block, qaVars, appVars>>

\* the while test fails: on to the next block
WhileExit ==
    /\ cpc = "while"
    /\ start >= Len(block)
    /\ bi' = bi + 1
    /\ cpc' = "for"
    /\ UNCHANGED <<text_blocks, max_chars, overlap, block, start, chunks, spans, qaVars, appVars>>

\* `return chunks`
ChunkReturn ==
    /\ cpc = "for"
    /\ bi > Len(text_blocks)
    /\ cpc' = "return"
    /\ UNCHANGED <<text_blocks, max_chars, overlap, bi, block, start, chunks, spans, qaVars, appVars>>

ChunkNext ==
    \/ ForSkip
    \/ ForWhole
    \/ ForEnter
    \/ WhileStep
    \/ WhileExit
    \/ ChunkReturn

SpecChunk == ChunkInit /\ [][ChunkNext]_vars

-----------------------------------------------------------------------------
(* chunk_text_blocks as one call: the same loops, run to their end *)

\* The while loop on one block from `from` on.  After Len(b) iterations a loop
\* that still runs has not moved `from` forward and never will: "hung".
RECURSIVE WhileLoop(_, _, _, _, _)
WhileLoop(b, from, m, o, fuel) ==
    IF from >= Len(b) THEN [hung |-> FALSE, chunks |-> <<>>]
    ELSE IF fuel = 0 THEN [hung |-> TRUE, chunks |-> <<>>]
    ELSE LET end == from + m
             rest == WhileLoop(b, NextStart(end, o), m, o, fuel - 1)
         IN  [hung |-> rest.hung,
              chunks |-> <<Strip(PySlice(b, from, end))>> \o rest.chunks]

RECURSIVE ForLoop(_, _, _)
ForLoop(blocks, m, o) ==
    IF blocks = <<>> THEN [hung |-> FALSE, chunks |-> <<>>]
    ELSE IF Strip(Head(blocks)) = <<>> THEN ForLoop(Tail(blocks), m, o)
    ELSE LET b == Prepared(Head(blocks))
             mine == IF Len(b) <= m THEN [hung |-> FALSE, chunks |-> <<b>>]
                     ELSE WhileLoop(b, 0, m, o, Len(b))
         IN  IF mine.hung THEN mine
             ELSE LET rest == ForLoop(Tail(blocks), m, o)
                  IN  [hung |-> rest.hung, chunks |-> mine.chunks \o rest.chunks]

chunk_text_blocks(blocks, m, o) == ForLoop(blocks, m, o)

-----------------------------------------------------------------------------
(* streamlit_app.py: every event re-runs the script from its first line *)

RECURSIVE Flatten(_)
Flatten(ss) == IF ss = <<>> THEN <<>> ELSE Head(ss) \o Flatten(Tail(ss))

\* tables_to_text_snippets: "Table {idx}:\n" and the rows; a table whose
\* rendering raises is left out
RECURSIVE SnippetsFrom(_, _)
SnippetsFrom(tables, idx) ==
    IF idx > Len(tables) THEN <<>>
    ELSE (IF tables[idx].renders
             THEN <<<<Letter, Letter, Space, ScoreDigits[idx], Comma, Space>>
                      \o tables[idx].text>>
             ELSE <<>>)
         \o SnippetsFrom(tables, idx + 1)

tables_to_text_snippets(tables) == SnippetsFrom(tables, 1)

\* What the user can upload: a file the extractor raises on, a PDF of one
\* page of text and one table, a workbook of one sheet that holds no word and
\* whose table does not render
Corrupt == [name |-> "bad.pdf", raises |-> TRUE, text_blocks |-> <<>>, tables |-> <<>>]
Report ==
    [name |-> "report.pdf", raises |-> FALSE,
     text_blocks |-> <<<<Space, Digit, Digit, Comma, Digit, Digit, Space, Digit, Digit>>>>,
     tables |-> <<[renders |-> TRUE, text |-> <<Digit, Digit>>]>>]
Workbook ==
    [name |-> "book.xlsx", raises |-> FALSE,
     text_blocks |-> <<<<Comma>>>>,
     tables |-> <<[renders |-> FALSE, text |-> <<>>]>>]
Files == {Corrupt, Report, Workbook}
Uploads == UNION {[1..n -> Files] : n \in 0..MaxFiles}

\* the sidebar: number_input accepts any number for both
SettingChoices ==
    {[max_chunk_chars |-> 4, overlap_chars |-> 1],
     [max_chunk_chars |-> 9, overlap_chars |-> 2],
     [max_chunk_chars |-> 2, overlap_chars |-> 2],
     [max_chunk_chars |-> 0, overlap_chars |-> 0]}

AppQuestions == {<<>>, <<Digit, Digit>>}
AppOutcomes == {o \in GenOutcomes : o.kind \in {"ok", "timeout"}}

\* `if process_button:` to the end of that branch: how it ends, and the
\* session's docs and orig_tables after it
ProcessBranch(up, st, d, t) ==
    IF up = <<>> THEN [end |-> "warning", docs |-> d, tables |-> t]
    ELSE IF \E i \in DOMAIN up : up[i].raises
    THEN [end |-> "ExtractError", docs |-> d, tables |-> t]
    ELSE LET all_text_blocks == Flatten([i \in DOMAIN up |-> up[i].text_blocks])
             all_tables == Flatten([i \in DOMAIN up |-> up[i].tables])
             c == chunk_text_blocks(all_text_blocks \o tables_to_text_snippets(all_tables),
                                    st.max_chunk_chars, st.overlap_chars)
         IN  IF c.hung THEN [end |-> "hung", docs |-> d, tables |-> t]
             ELSE [end |-> "done", docs |-> c.chunks, tables |-> all_tables]

\* `if st.session_state.docs: retriever = Retriever(docs) else: retriever = None`;
\* the script builds it anew in every run, whatever the run before had
ScriptRetrieverCached(last, d) ==
    IF last # None THEN last
    ELSE IF d = <<>> THEN None ELSE Retriever(d)
ScriptRetriever(last, d) == IF d = <<>> THEN None ELSE Retriever(d)

Raised(r) == r # None /\ r.exc # "none"

\* chat_history.append({"q": question, "a": answer}): the history is only
\* displayed, and an answer is kept by its kind
AnswerKind(a) == IF Len(a) >= Len(ErrorLabel) /\ Take(a, Len(ErrorLabel)) = ErrorLabel
                 THEN "error" ELSE "text"

callVars == <<qpc, question, top_k, sims, hits, prompt, ollama, gen_log, response>>

AppInit ==
    /\ ChunkIdle
    /\ QAIdle
    /\ AppIdle

\* the user clicks "Process uploaded files"
ProcessClick ==
    /\ apc \in {"start", "idle"}
    /\ \E up \in Uploads, st \in SettingChoices :
          LET b == ProcessBranch(up, st, docs, orig_tables)
              r == ScriptRetriever(retriever, b.docs)
          IN  /\ uploaded' = up
              /\ settings' = st
              /\ docs' = b.docs
              /\ orig_tables' = b.tables
              /\ IF b.end \in {"ExtractError", "hung"}
                 THEN apc' = b.end /\ UNCHANGED retriever
                 ELSE IF Raised(r)
                 THEN apc' = r.exc /\ UNCHANGED retriever
                 ELSE apc' = b.end /\ retriever' = r
    /\ event' = "process"
    /\ UNCHANGED <<chunkVars, chat_history, callVars>>

\* the user clicks "Ask"
AskClick ==
    /\ apc \in {"start", "idle"}
    /\ Len(chat_history) < MaxAsks
    /\ event' = "ask"
    /\ \E q \in AppQuestions :
          LET r == ScriptRetriever(retriever, docs)
          IN  IF Raised(r)
              THEN /\ apc' = r.exc
                   /\ UNCHANGED <<retriever, chat_history, callVars>>
              ELSE IF q = <<>> \/ r = None
              THEN /\ apc' = "warning"
                   /\ retriever' = r
                   /\ UNCHANGED <<chat_history, callVars>>
              ELSE \E s \in Similarities(r, q) :
                     \E k \in 1..MaxK, outcome \in AppOutcomes :
                        \E idx \in ArgSortTop(s, k) :
                        LET a == answer_question(r, q, docs, s, idx, outcome)
                        IN  /\ retriever' = r
                            /\ question' = q
                            /\ top_k' = k
                            /\ sims' = s
                            /\ hits' = a.hits
                            /\ prompt' = a.prompt
                            /\ ollama' = outcome
                            /\ gen_log' = a.calls
                            /\ response' = a.response
                            /\ IF a.exc = "none"
                               THEN /\ qpc' = "answered"
                                    /\ apc' = "done"
                                    /\ chat_history' =
                                          Append(chat_history,
                                                 [q |-> q, a |-> AnswerKind(a.response)])
                               ELSE /\ qpc' = "raised"
                                    /\ apc' = a.exc
                                    /\ UNCHANGED chat_history
    /\ UNCHANGED <<chunkVars, docs, uploaded, settings, orig_tables>>

\* any other widget changes: the script runs with neither button pressed
Rerun ==
    /\ apc \in {"start", "idle"}
    /\ event' = "rerun"
    /\ LET r == ScriptRetriever(retriever, docs)
       IN  IF Raised(r)
           THEN apc' = r.exc /\ UNCHANGED retriever
           ELSE apc' = "done" /\ retriever' = r
    /\ UNCHANGED <<chunkVars, docs, uploaded, settings, orig_tables, chat_history, callVars>>

\* The run is over (it reached the last line, or an exception stopped it): its
\* local variables are gone, the session state stays, the app waits for the
\* next event.  A run hung inside chunk_text_blocks never gets here.
EndRun ==
    /\ apc \notin {"start", "idle", "hung"}
    /\ apc' = "idle"
    /\ event' = "none"
    /\ uploaded' = <<>>
    /\ settings' = None
    /\ qpc' = "new"
    /\ question' = <<>>
    /\ top_k' = 0
    /\ sims' = <<>>
    /\ hits' = <<>>
    /\ prompt' = <<>>
    /\ ollama' = None
    /\ gen_log' = <<>>
    /\ response' = <<>>
    /\ UNCHANGED <<chunkVars, docs, retriever, orig_tables, chat_history>>

AppNext ==
    \/ ProcessClick
    \/ AskClick
    \/ Rerun
    \/ EndRun

Spec == AppInit /\ [][AppNext]_vars

-----------------------------------------------------------------------------
(* Properties of chunk_text_blocks, checked under SpecChunk *)

\* C1: for max_chars > 0 and any overlap, every iteration of the while loop
\* that is followed by another one moves `start` forward by at least one
\* character, so the loop reaches start >= len(block).
C1_StartAdvances ==
    [][(cpc = "while" /\ cpc' = "while" /\ max_chars > 0) => start' > start]_vars

\* C2: a call with max_chars <= 0 never enters the windowing loop and never
\* emits a chunk.
C2_FailFast ==
    max_chars <= 0 => (cpc # "while" /\ chunks = <<>>)

SpansOf(b) == {i \in DOMAIN spans : spans[i].blk = b}

\* C7: with 0 <= overlap < max_chars, when the call returns, every position
\* 0..L-1 of every normalized block lies in the span of an emitted chunk.
C7_ChunkCoverage ==
    (cpc = "return" /\ max_chars > 0 /\ overlap < max_chars) =>
        \A b \in 1..Len(text_blocks) :
            \A p \in 0..(Len(Prepared(text_blocks[b])) - 1) :
                \E i \in SpansOf(b) : spans[i].lo <= p /\ p < spans[i].hi

\* C7 witness: a returned call with a real overlap that cut one block into at
\* least three windows.
C7_Witness ==
    /\ cpc = "return"
    /\ 0 < overlap /\ overlap < max_chars
    /\ \E b \in 1..Len(text_blocks) :
          /\ Cardinality(SpansOf(b)) >= 3
          /\ Len(Prepared(text_blocks[b])) < Len(text_blocks[b])

\* C10: with 0 <= overlap < max_chars the windows of a block start at
\* 0, m-o, 2(m-o), ... and none is emitted after a window whose end has
\* reached the end of the block.
C10_StopsAtCoveringWindow ==
    (max_chars > 0 /\ overlap < max_chars) =>
        \A i \in DOMAIN spans :
            LET L == Len(Prepared(text_blocks[spans[i].blk]))
            IN  L > max_chars =>
                  /\ (i = 1 \/ spans[i-1].blk # spans[i].blk) => spans[i].lo = 0
                  /\ (i > 1 /\ spans[i-1].blk = spans[i].blk) =>
                        /\ spans[i].lo = spans[i-1].lo + (max_chars - overlap)
                        /\ spans[i-1].hi < L

-----------------------------------------------------------------------------
(* Properties of Retriever.top_k and answer_question, checked under SpecQA *)

HitPos(c) == {i \in DOMAIN hits : hits[i].idx = c}

\* C3: when two chunks i < j have equal similarity, j is returned only if i is
\* returned too, and i comes before j in the result.
C3_TieBreakAscending ==
    qpc = "answered" =>
        \A i, j \in DOMAIN sims :
            (i < j /\ sims[i] = sims[j] /\ HitPos(j - 1) # {}) =>
                \E a \in HitPos(i - 1) : \A b \in HitPos(j - 1) : a < b

Failed == ollama # None /\ ollama.kind \in {"missing", "nonzero", "timeout"}

FailureReason ==
    CASE ollama.kind = "missing" -> CliMissingMsg
      [] ollama.kind = "timeout" -> TimedOutMsg
      [] OTHER -> OllamaErrorLabel \o <<"e">>

\* C4: when the Ollama CLI is missing, exits non-zero or times out,
\* answer_question raises nothing: it returns the failure reason followed by
\* the first 2000 characters of the prompt, and the CLI was run once.
C4_FailureWrapped ==
    (qpc \in {"answered", "raised"} /\ Failed) =>
        /\ qpc = "answered"
        /\ gen_log = <<prompt>>
        /\ response = ErrorLabel \o FailureReason \o PromptSentLabel
                                 \o SubSeq(prompt, 1, Min(Len(prompt), TruncLen))

\* C4 witness: a timed-out call whose prompt is longer than 2000 characters.
C4_Witness ==
    /\ qpc = "answered"
    /\ ollama # None /\ ollama.kind = "timeout"
    /\ Len(prompt) > TruncLen

\* C8: whenever top_k returned no hit, the one prompt handed to the Ollama CLI
\* holds exactly the synthetic entry between the CONTEXT and QUESTION labels.
C8_NoEmptyContext ==
    (qpc = "answered" /\ hits = <<>>) =>
        gen_log = <<Header \o ContextLabel \o NoContext \o QuestionLabel
                           \o question \o Trailer>>

\* C8 witness: a question answered over the empty corpus.
C8_Witness ==
    /\ qpc = "answered"
    /\ docs = <<>>
    /\ hits = <<>>
    /\ Len(gen_log) = 1

\* C9: top_k returns no hit of similarity <= 0, and returns the empty list when
\* the corpus is empty or no chunk has a positive similarity.
C9_ZeroScoreExclusion ==
    qpc = "answered" =>
        /\ \A i \in DOMAIN hits :
              /\ hits[i].score > 0
              /\ hits[i].idx + 1 \in DOMAIN sims
              /\ hits[i].score = sims[hits[i].idx + 1]
        /\ (docs = <<>> \/ \A i \in DOMAIN sims : sims[i] <= 0) => hits = <<>>

\* C9 witness: a chunk of similarity 0 was among the top_k highest and only
\* the positive ones came back.
C9_Witness ==
    /\ qpc = "answered"
    /\ hits # <<>>
    /\ Len(hits) < Min(top_k, Len(docs))
    /\ \E i \in DOMAIN sims : sims[i] = 0

-----------------------------------------------------------------------------
(* Properties of the app, checked under Spec *)

RECURSIVE Extractable(_)
Extractable(up) ==
    IF up = <<>> THEN <<>>
    ELSE (IF Head(up).raises THEN <<>> ELSE <<Head(up)>>) \o Extractable(Tail(up))

\* C5: after a Process click on a batch in which the extractor fails on one
\* file and not on another, the session holds the chunks and tables of the
\* files that did extract.
C5_FailureIsolated ==
    (/\ event = "process"
     /\ \E i \in DOMAIN uploaded : uploaded[i].raises
     /\ \E i \in DOMAIN uploaded : ~uploaded[i].raises) =>
        LET others == ProcessBranch(Extractable(uploaded), settings, <<>>, <<>>)
        IN  others.end = "done" =>
              /\ apc # "ExtractError"
              /\ docs = others.docs
              /\ orig_tables = others.tables

\* C6: every query of the app runs on a Retriever built from the session's
\* current docs: the call raises no IndexError, and every hit's chunk_index is
\* a position of docs that holds the chunk the Retriever ranked.
C6_FreshIndex ==
    event = "ask" =>
        /\ apc # "IndexError"
        /\ qpc = "answered" =>
              /\ retriever.docs = docs
              /\ \A i \in DOMAIN hits :
                    /\ hits[i].idx \in 0..(Len(docs) - 1)
                    /\ retriever.docs[hits[i].idx + 1] = docs[hits[i].idx + 1]

\* C6 witness: a question answered over a corpus of chunks and table
\* snippets, with two hits, the first of them not chunk 0.
C6_Witness ==
    /\ event = "ask"
    /\ qpc = "answered"
    /\ orig_tables # <<>>
    /\ Len(hits) >= 2
    /\ hits[1].idx > 0

=============================================================================
